---- MODULE Spec2Model ----
(***************************************************************************)
(* Two-party call coordination: the call signaling service (CallService),  *)
(* the LiveKit token endpoint (POST) and the per-call session component    *)
(* (VideoChatLiveKit).                                                     *)
(*                                                                         *)
(* Strings that the code sorts or joins are sequences of UTF-16 code       *)
(* units; every other string is an opaque TLA+ string.                     *)
(***************************************************************************)
EXTENDS Integers, Sequences, FiniteSets, TLC

(***************************************************************************)
(* Bounds of the model.                                                    *)
(***************************************************************************)
MaxCalls == 2        \* invites created in one run
MaxSubs == 1         \* listenIncoming subscriptions opened in one run
MaxTime == 2         \* largest value of the store's clock
MaxRedeliver == 1    \* repeated 'added' events the store may send
MaxIdLen == 2        \* longest identity given to the Room Namer

(***************************************************************************)
(* Identities and display names.                                           *)
(***************************************************************************)
Underscore == 95     \* '_', the separator of join('_')

U1 == <<117, 49>>    \* "u1"
U2 == <<117, 50>>    \* "u2"
U3 == <<117, 51>>    \* "u3"
Users == {U1, U2}
NameOf(u) == IF u = U1 THEN "Ann" ELSE IF u = U2 THEN "Bob" ELSE "Cat"

VARIABLES
  calls,       \* the 'calls' collection: document id = index
  now,         \* the store's clock, read by serverTimestamp()
  lastOp,      \* the last CallService operation and how its promise settled
  subs,        \* the listenIncoming subscriptions: subscription id = index
  delivered,   \* the invocations of the listeners' callbacks, in order
  redelivered, \* how many repeated 'added' events the store has sent
  rnPair,      \* Room Namer: the two identities of a call
  rnRooms,     \* Room Namer: the room each participant's code path computed
  tkRequest,   \* token endpoint: the request received
  tkEnv,       \* token endpoint: LIVEKIT_API_KEY and LIVEKIT_API_SECRET
  tkSigner,    \* token endpoint: whether at.toJwt() returns or throws
  tkResponse,  \* token endpoint: the response sent
  user,            \* VideoChatLiveKit: user?.uid of useAuth(), or Undefined
  partnerId,       \* VideoChatLiveKit: the partnerId prop
  token,           \* VideoChatLiveKit: the token state
  tokenRoom,       \* the roomName of the request that the token state came from
  getTokenRuns,    \* the calls of getToken(), one for each run of the effect:
                   \* where it is, what its fetch settled with, its roomName
  room,            \* LiveKitRoom: "idle", "connected" or "disconnected"
  remote,          \* CustomVideoUI: a remote participant is in the room
  elapsed,         \* whole seconds of Date.now() - startTimeRef.current
  callDuration,    \* VideoChatLiveKit: the callDuration state
  sessionHistory,  \* the entries addSessionHistory was called with, in order
  awaitingHistory, \* termination handlers awaiting their addSessionHistory
  onEndCallCount,  \* how many times onEndCall was invoked
  historyRejected, \* how many calls of addSessionHistory were rejected
  mounted,         \* VideoChatLiveKit is mounted: its parent has not removed it
  events,          \* how many events from outside have reached the component
  localStreamRef,        \* VideoChatLiveKit: localStreamRef.current holds a stream
  uiLocalStreamRef,      \* CustomVideoUI: its own localStreamRef.current holds a stream
  uiTracksStopped,       \* CustomVideoUI: the tracks of that stream were stopped
  captures,              \* CustomVideoUI: the calls of captureLocalStream(), and
                         \* where each of them is
  startRecordingPc,      \* where the last call of startRecording ended
  showRecordingSettings, \* VideoChatLiveKit: the showRecordingSettings state
  recordingTitle,        \* VideoChatLiveKit: the recordingTitle state
  recordingPrice,        \* VideoChatLiveKit: the recordingPrice state, a number
  isRecording,           \* VideoChatLiveKit: the isRecording state
  mediaRecorder,         \* VideoChatLiveKit: the mediaRecorder state (0 is null)
  recordedChunks,        \* VideoChatLiveKit: the recordedChunks state
  recorders,             \* the MediaRecorder objects created, with their handlers
  uploads,               \* the calls of VideoStorageService.uploadRecording
  recordings             \* the entries addRecording was called with

sigVars == <<calls, now, lastOp, subs, delivered, redelivered>>
rnVars == <<rnPair, rnRooms>>
tkVars == <<tkRequest, tkEnv, tkSigner, tkResponse>>

authVars == <<user, partnerId>>
tokenVars == <<token, tokenRoom, getTokenRuns>>
roomVars == <<room, remote>>
timeVars == <<elapsed, callDuration>>
historyVars == <<sessionHistory, awaitingHistory, historyRejected>>
parentVars == <<onEndCallCount, mounted>>
coVars == <<authVars, tokenVars, roomVars, timeVars, historyVars, parentVars>>
seVars == <<coVars, events>>

captureVars == <<uiLocalStreamRef, uiTracksStopped, captures>>
settingsVars == <<showRecordingSettings, recordingTitle, recordingPrice>>
recorderVars == <<localStreamRef, startRecordingPc, isRecording, mediaRecorder,
                  recordedChunks, recorders, uploads, recordings>>
recVars == <<captureVars, settingsVars, recorderVars>>

vars == <<sigVars, rnVars, tkVars, seVars, recVars>>

notSig == <<rnVars, tkVars, seVars, recVars>>
notRn == <<sigVars, tkVars, seVars, recVars>>
notTk == <<sigVars, rnVars, seVars, recVars>>
notCall == <<sigVars, rnVars, tkVars>>

(***************************************************************************)
(* Room Namer: [a, b].sort().join('_').                                    *)
(* Array.prototype.sort without a comparator orders strings by their       *)
(* UTF-16 code units; a proper prefix sorts first.                         *)
(***************************************************************************)
RECURSIVE StrLess(_, _)
StrLess(a, b) ==
  IF b = <<>> THEN FALSE
  ELSE IF a = <<>> THEN TRUE
  ELSE IF Head(a) < Head(b) THEN TRUE
  ELSE IF Head(a) > Head(b) THEN FALSE
  ELSE StrLess(Tail(a), Tail(b))

SortPair(a, b) == IF StrLess(b, a) THEN <<b, a>> ELSE <<a, b>>

JoinPair(p) == p[1] \o <<Underscore>> \o p[2]

\* roomId without the sort: the caller always comes first
CreateCallRoomId_Unsorted(callerId, calleeId) == JoinPair(<<callerId, calleeId>>)

CreateCallRoomId(callerId, calleeId) == JoinPair(SortPair(callerId, calleeId))

\* roomName of getToken: [user.uid, partnerId].sort().join("_")
GetTokenRoomName(uid, partner) == JoinPair(SortPair(uid, partner))

(***************************************************************************)
(* Call Signaling Service (CallService).                                   *)
(***************************************************************************)
Missing == [status |-> "missing"]

CallIds == 1..MaxCalls

Lookup(id) == IF id \in DOMAIN calls THEN calls[id] ELSE Missing

NoOp == [op |-> "none", callId |-> 0, before |-> Missing, outcome |-> "none"]

createCall(callerId, calleeId) ==
  /\ Len(calls) < MaxCalls
  /\ calls' = Append(calls,
       [roomId     |-> CreateCallRoomId(callerId, calleeId),
        callerId   |-> callerId,
        callerName |-> NameOf(callerId),
        calleeId   |-> calleeId,
        calleeName |-> NameOf(calleeId),
        status     |-> "ringing",
        createdAt  |-> now,
        updatedAt  |-> now])
  /\ lastOp' = [op |-> "createCall", callId |-> Len(calls) + 1,
                before |-> Missing, outcome |-> "resolved"]
  /\ UNCHANGED <<now, subs, delivered, redelivered, notSig>>

\* updateDoc(ref, patch): rejects when the document does not exist,
\* otherwise overwrites the patched fields whatever their current value.
UpdateDoc(op, callId, status) ==
  /\ lastOp' = [op |-> op, callId |-> callId, before |-> Lookup(callId),
                outcome |-> IF callId \in DOMAIN calls THEN "resolved" ELSE "rejected"]
  /\ calls' = IF callId \in DOMAIN calls
              THEN [calls EXCEPT ![callId].status = status,
                                 ![callId].updatedAt = now]
              ELSE calls
  /\ UNCHANGED <<now, subs, delivered, redelivered, notSig>>

acceptCall(callId) == UpdateDoc("acceptCall", callId, "accepted")

endCall(callId) == UpdateDoc("endCall", callId, "ended")

\* the store's clock advances
Tick ==
  /\ now < MaxTime
  /\ now' = now + 1
  /\ UNCHANGED <<calls, lastOp, subs, delivered, redelivered, notSig>>

(***************************************************************************)
(* listenIncoming: onSnapshot over calls where calleeId == userId and      *)
(* status == 'ringing'.  The store computes each snapshot's docChanges()   *)
(* against the result set it last reported to the subscription, and the    *)
(* snapshot then travels to the client (inflight).                         *)
(***************************************************************************)
NullTs == -1         \* a timestamp field that is not set

Behaviours == {"return", "unsubscribe", "throw"}   \* what one callback invocation does

SubIds == 1..MaxSubs

Matching(userId) ==
  {id \in DOMAIN calls : calls[id].calleeId = userId /\ calls[id].status = "ringing"}

RECURSIVE Ascending(_)
Ascending(S) ==
  IF S = {} THEN <<>>
  ELSE LET m == CHOOSE x \in S : \A y \in S : x <= y
       IN <<m>> \o Ascending(S \ {m})

Change(type, id) == [type |-> type, id |-> id, data |-> calls[id]]

RECURSIVE Changes(_, _)
Changes(type, ids) ==
  IF ids = <<>> THEN <<>>
  ELSE <<Change(type, Head(ids))>> \o Changes(type, Tail(ids))

\* data.createdAt?.toDate?.() || new Date()
ToDateOrNow(ts) == IF ts = NullTs THEN now ELSE ts

\* the CallInvite object handed to the callback
InviteOf(change) ==
  [id         |-> change.id,
   roomId     |-> change.data.roomId,
   callerId   |-> change.data.callerId,
   callerName |-> change.data.callerName,
   calleeId   |-> change.data.calleeId,
   calleeName |-> change.data.calleeName,
   status     |-> change.data.status,
   createdAt  |-> ToDateOrNow(change.data.createdAt),
   updatedAt  |-> ToDateOrNow(change.data.updatedAt)]

\* snap.docChanges().forEach(...): acc.active is whether the subscription is
\* still subscribed, acc.log the callback invocations so far.  A callback that
\* throws ends the forEach; one that unsubscribes does not.
RECURSIVE ForEachChange(_, _, _, _, _)
ForEachChange(changes, beh, s, i, acc) ==
  IF i > Len(changes) THEN acc
  ELSE IF changes[i].type = "added"
  THEN LET entry == [sub |-> s, invite |-> InviteOf(changes[i]),
                     afterUnsubscribe |-> ~acc.active]
           acc1 == [active |-> acc.active /\ beh[i] # "unsubscribe",
                    log |-> Append(acc.log, entry)]
       IN IF beh[i] = "throw" THEN acc1
          ELSE ForEachChange(changes, beh, s, i + 1, acc1)
  ELSE ForEachChange(changes, beh, s, i + 1, acc)

listenIncoming(userId) ==
  /\ Len(subs) < MaxSubs
  /\ subs' = Append(subs, [userId |-> userId, active |-> TRUE, inited |-> FALSE,
                           view |-> {}, inflight |-> <<>>])
  /\ UNCHANGED <<calls, now, lastOp, delivered, redelivered, notSig>>

\* the store reports the difference between the query's result set and the
\* set it reported last (the first snapshot reports every matching document)
StoreSnapshot(s) ==
  /\ subs[s].active
  /\ LET match == Matching(subs[s].userId)
         snap == Changes("removed", Ascending(subs[s].view \ match))
                   \o Changes("added", Ascending(match \ subs[s].view))
     IN /\ ~subs[s].inited \/ match # subs[s].view
        /\ subs' = [subs EXCEPT ![s].view = match,
                                ![s].inited = TRUE,
                                ![s].inflight = Append(@, snap)]
  /\ UNCHANGED <<calls, now, lastOp, delivered, redelivered, notSig>>

\* at-least-once delivery: the store reports a document it has already
\* reported, and which still matches, as 'added' again
StoreRedeliver(s, id) ==
  /\ subs[s].active
  /\ redelivered < MaxRedeliver
  /\ id \in subs[s].view \cap Matching(subs[s].userId)
  /\ subs' = [subs EXCEPT ![s].inflight = Append(@, <<Change("added", id)>>)]
  /\ redelivered' = redelivered + 1
  /\ UNCHANGED <<calls, now, lastOp, delivered, notSig>>

\* the snapshot listener of listenIncoming runs on the oldest snapshot in
\* flight; onSnapshot no longer calls it once the subscription is cancelled
SnapshotListener(s) ==
  /\ subs[s].active
  /\ subs[s].inflight # <<>>
  /\ \E beh \in [1..Len(Head(subs[s].inflight)) -> Behaviours] :
       LET acc == ForEachChange(Head(subs[s].inflight), beh, s, 1,
                                [active |-> TRUE, log |-> delivered])
       IN /\ delivered' = acc.log
          /\ subs' = [subs EXCEPT ![s].inflight = Tail(@), ![s].active = acc.active]
  /\ UNCHANGED <<calls, now, lastOp, redelivered, notSig>>

\* a snapshot in flight to a cancelled subscription is dropped
DropSnapshot(s) ==
  /\ ~subs[s].active
  /\ subs[s].inflight # <<>>
  /\ subs' = [subs EXCEPT ![s].inflight = Tail(@)]
  /\ UNCHANGED <<calls, now, lastOp, delivered, redelivered, notSig>>

\* the handle returned by listenIncoming, called outside the callback
Unsubscribe(s) ==
  /\ subs[s].active
  /\ subs' = [subs EXCEPT ![s].active = FALSE]
  /\ UNCHANGED <<calls, now, lastOp, delivered, redelivered, notSig>>

SigInit ==
  /\ calls = <<>>
  /\ now = 0
  /\ lastOp = NoOp
  /\ subs = <<>>
  /\ delivered = <<>>
  /\ redelivered = 0

(***************************************************************************)
(* Room Namer, as each participant's code path applies it to one pair of   *)
(* identities: createCall by whoever calls, getToken by each participant's *)
(* session component.                                                      *)
(***************************************************************************)
Alphabet == {65, 95, 97}     \* 'A', '_', 'a'

RECURSIVE StringsOfLen(_)
StringsOfLen(n) ==
  IF n = 0 THEN {<<>>}
  ELSE {<<c>> \o t : c \in Alphabet, t \in StringsOfLen(n - 1)}

Identities == UNION {StringsOfLen(n) : n \in 1..MaxIdLen}

Paths == {"createCall a->b", "createCall b->a", "getToken a", "getToken b"}

NoRoom == <<0>>

RnInit ==
  /\ rnPair \in Identities \X Identities
  /\ rnRooms = [p \in Paths |-> NoRoom]

RnIdle ==
  /\ rnPair = <<U1, U2>>
  /\ rnRooms = [p \in Paths |-> NoRoom]

\* the roomId createCall returns when caller calls callee
RnCreateCall(path, callerId, calleeId) ==
  /\ rnRooms[path] = NoRoom
  /\ rnRooms' = [rnRooms EXCEPT ![path] = CreateCallRoomId(callerId, calleeId)]
  /\ UNCHANGED <<rnPair, notRn>>

\* the roomName getToken requests a credential for, run by user with partner
RnGetToken(path, uid, partner) ==
  /\ rnRooms[path] = NoRoom
  /\ rnRooms' = [rnRooms EXCEPT ![path] = GetTokenRoomName(uid, partner)]
  /\ UNCHANGED <<rnPair, notRn>>

(***************************************************************************)
(* Token endpoint: POST of the livekit-token route.                        *)
(* A JSON value is "undefined" (the field is absent), "null", or a string; *)
(* the first two are written as the tags below.                            *)
(***************************************************************************)
Undefined == "<undefined>"
Null == "<null>"

Falsy(v) == v \in {Undefined, Null, ""}

FieldValues == {Undefined, Null, "", "x"}
EnvValues == {Undefined, "", "secret"}

\* the request body: text that is not JSON, the JSON value null, or an object
Bodies ==
  {[kind |-> k, roomName |-> Undefined, participantName |-> Undefined,
    participantIdentity |-> Undefined] : k \in {"unparsable", "null"}}
  \cup
  {[kind |-> "object", roomName |-> r, participantName |-> n,
    participantIdentity |-> i] : r \in FieldValues, n \in FieldValues, i \in FieldValues}

\* no token: the token field of an error body, and the '' of useState("")
NoToken ==
  [apiKey |-> Undefined, apiSecret |-> Undefined, identity |-> Undefined,
   name |-> Undefined, room |-> Undefined, roomJoin |-> FALSE, canPublish |-> FALSE,
   canSubscribe |-> FALSE, canPublishData |-> FALSE]

NoResponse == [status |-> 0, token |-> NoToken, error |-> Undefined, details |-> Undefined]

Json(status, tok, error, details) ==
  [status |-> status, token |-> tok, error |-> error, details |-> details]

\* new AccessToken(apiKey, apiSecret, {identity, name}) with the room grant
AccessToken(apiKey, apiSecret, identity, name, roomName) ==
  [apiKey |-> apiKey, apiSecret |-> apiSecret, identity |-> identity,
   name |-> name, room |-> roomName, roomJoin |-> TRUE, canPublish |-> TRUE,
   canSubscribe |-> TRUE, canPublishData |-> TRUE]

HttpOk == 200
HttpBadRequest == 400
HttpServerError == 500

\* POST without the check of the server credentials
PostResponse_NoCredentialCheck(body, env, signer) ==
  IF body.kind \in {"unparsable", "null"}
  THEN Json(HttpServerError, NoToken, "Failed to generate token", "threw")
  ELSE IF Falsy(body.roomName) \/ Falsy(body.participantIdentity)
  THEN Json(HttpBadRequest, NoToken, "roomName and participantIdentity are required", Undefined)
  ELSE IF signer = "throws"
  THEN Json(HttpServerError, NoToken, "Failed to generate token", "threw")
  ELSE Json(HttpOk,
            AccessToken(env.apiKey, env.apiSecret, body.participantIdentity,
                        IF Falsy(body.participantName) THEN body.participantIdentity
                        ELSE body.participantName,
                        body.roomName),
            Undefined, Undefined)

\* the response of POST: request.json() throws on text that is not JSON and
\* destructuring throws on null; both end in the catch block
PostResponse(body, env, signer) ==
  IF body.kind \in {"unparsable", "null"}
  THEN Json(HttpServerError, NoToken, "Failed to generate token", "threw")
  ELSE IF Falsy(body.roomName) \/ Falsy(body.participantIdentity)
  THEN Json(HttpBadRequest, NoToken, "roomName and participantIdentity are required", Undefined)
  ELSE IF Falsy(env.apiKey) \/ Falsy(env.apiSecret)
  THEN Json(HttpServerError, NoToken,
            "Server configuration error - LiveKit credentials not set", Undefined)
  ELSE IF signer = "throws"
  THEN Json(HttpServerError, NoToken, "Failed to generate token", "threw")
  ELSE Json(HttpOk,
            AccessToken(env.apiKey, env.apiSecret, body.participantIdentity,
                        IF Falsy(body.participantName) THEN body.participantIdentity
                        ELSE body.participantName,
                        body.roomName),
            Undefined, Undefined)

TkInit ==
  /\ tkRequest \in Bodies
  /\ tkEnv \in [apiKey : EnvValues, apiSecret : EnvValues]
  /\ tkSigner \in {"returns", "throws"}
  /\ tkResponse = NoResponse

TkIdle ==
  /\ tkRequest = [kind |-> "null", roomName |-> Undefined,
                  participantName |-> Undefined, participantIdentity |-> Undefined]
  /\ tkEnv = [apiKey |-> Undefined, apiSecret |-> Undefined]
  /\ tkSigner = "returns"
  /\ tkResponse = NoResponse

POST ==
  /\ tkResponse = NoResponse
  /\ tkResponse' = PostResponse(tkRequest, tkEnv, tkSigner)
  /\ UNCHANGED <<tkRequest, tkEnv, tkSigner, notTk>>

(***************************************************************************)
(* Session Orchestrator: the VideoChatLiveKit component of one call of     *)
(* user U1.  Every action is one task of the event loop: a handler runs up *)
(* to its first await on something pending, and what follows the await is  *)
(* another action.  The parent of the component and useAuth() are its      *)
(* environment: they give it partnerId, onEndCall and the user, may change *)
(* them while it is mounted, and may remove it when onEndCall is called.   *)
(* What LiveKitRoom does when its token prop changes is not in the source: *)
(* the room stays as it is.                                                *)
(***************************************************************************)
MaxElapsed == 1      \* seconds of wall-clock time a run covers
MaxHistory == 2      \* calls of addSessionHistory in one run
MaxRecorders == 2    \* MediaRecorder objects created in one run
MaxEffectRuns == 2   \* runs of the effect that calls getToken
MaxCaptures == 2     \* calls of captureLocalStream in one run
MaxEvents == 5       \* events from outside the component in one run: renders
                     \* with other props, clicks, typing, what the room reports

PartnerId == U2      \* the partnerId prop at mount
Partners == {U2, U3}
ConnectionFee == 5

\* the partnerName prop goes with the partnerId prop
PartnerName == NameOf(partnerId)

\* the body getToken posts; the endpoint tests roomName and
\* participantIdentity for truthiness only, and all three are non-empty
GetTokenBody ==
  [kind |-> "object", roomName |-> "x", participantName |-> "x",
   participantIdentity |-> "x"]

NotFetched == [kind |-> "none", response |-> NoResponse]
FetchRejected == [kind |-> "rejected", response |-> NoResponse]

\* what fetch can settle with: a network error, or a response of the endpoint
FetchOutcomes ==
  {FetchRejected} \cup
  {[kind |-> "response", response |-> PostResponse(GetTokenBody, e, sg)] :
     e \in [apiKey : EnvValues, apiSecret : EnvValues], sg \in {"returns", "throws"}}

\* response.ok
Ok(response) == response.status >= 200 /\ response.status <= 299

\* getToken after the fetch: the token to set, or the throw into the catch
GetTokenSettled(outcome) ==
  IF outcome.kind = "rejected" \/ ~Ok(outcome.response)
  THEN [token |-> NoToken, threw |-> TRUE]
  ELSE [token |-> outcome.response.token, threw |-> FALSE]

\* getToken() up to its first await, with the user and the partner of the
\* render whose effect calls it: it returns at once without a user, and else
\* posts the request for the room of the two
GetToken(uid, partner) ==
  IF uid = Undefined
  THEN [pc |-> "returned", fetched |-> NotFetched, roomName |-> NoRoom]
  ELSE [pc |-> "fetching", fetched |-> NotFetched,
        roomName |-> GetTokenRoomName(U1, partner)]

\* where the getToken() of the latest run of the effect is, and what its
\* fetch settled with
getTokenPc ==
  IF getTokenRuns = <<>> THEN "start" ELSE getTokenRuns[Len(getTokenRuns)].pc

fetched ==
  IF getTokenRuns = <<>> THEN NotFetched ELSE getTokenRuns[Len(getTokenRuns)].fetched

\* the component is on screen until its parent removes it
Mounted == mounted

\* if (!token) return <Connecting/>: LiveKitRoom and its children are rendered
Rendered == token # NoToken

\* the cleanup of the effect of CustomVideoUI: the tracks of the stream in
\* its ref are stopped, and the stream stays in the ref
StopTracks == uiTracksStopped' = uiLocalStreamRef

\* onEndCall(): the parent is told that the call ended, and removes the
\* component or leaves it on screen; removing it runs the cleanups of its
\* effects
OnEndCall ==
  /\ onEndCallCount' = onEndCallCount + 1
  /\ \E unmounts \in BOOLEAN :
       /\ mounted' = (mounted /\ ~unmounts)
       /\ IF mounted /\ unmounts THEN StopTracks ELSE UNCHANGED uiTracksStopped

\* one more event from outside reaches the component
Event ==
  /\ events < MaxEvents
  /\ events' = events + 1

\* the effect runs after the first render: it calls getToken() and sets the
\* interval
GetTokenStart ==
  /\ getTokenRuns = <<>>
  /\ getTokenRuns' = <<GetToken(user, partnerId)>>
  /\ UNCHANGED <<events, authVars, token, tokenRoom, roomVars, timeVars, historyVars,
                 parentVars, recVars, notCall>>

\* a render with another partnerId, user?.uid or onEndCall: the cleanup of
\* the effect clears the interval, and the effect runs again: it calls
\* getToken() and sets the interval.  A getToken() of an earlier run goes on.
GetTokenRestart(uid, partner) ==
  /\ Mounted
  /\ getTokenRuns # <<>>
  /\ Len(getTokenRuns) < MaxEffectRuns
  /\ user' = uid
  /\ partnerId' = partner
  /\ getTokenRuns' = Append(getTokenRuns, GetToken(uid, partner))
  /\ Event
  /\ UNCHANGED <<token, tokenRoom, roomVars, timeVars, historyVars, parentVars,
                 recVars, notCall>>

\* the fetch of run i settles: a rejection goes to the catch of getToken
\* (alert, onEndCall); with a response getToken awaits response.json()
GetTokenFetched(i) ==
  /\ getTokenRuns[i].pc = "fetching"
  /\ \E outcome \in FetchOutcomes :
       /\ getTokenRuns' =
            [getTokenRuns EXCEPT
               ![i].fetched = outcome,
               ![i].pc = IF outcome.kind = "rejected" THEN "caught" ELSE "reading"]
       /\ IF outcome.kind = "rejected"
          THEN OnEndCall
          ELSE UNCHANGED <<parentVars, uiTracksStopped>>
  /\ UNCHANGED <<events, authVars, token, tokenRoom, roomVars, timeVars, historyVars,
                 uiLocalStreamRef, captures, settingsVars, recorderVars, notCall>>

\* response.json() of run i settles: with a body that cannot be read, or the
\* body of a response that is not OK, getToken throws into its catch; else
\* setToken, which does nothing once the component is removed
GetTokenRead(i) ==
  /\ getTokenRuns[i].pc = "reading"
  /\ \E read \in BOOLEAN :
       LET r == GetTokenSettled(getTokenRuns[i].fetched)
       IN IF ~read \/ r.threw
          THEN /\ getTokenRuns' = [getTokenRuns EXCEPT ![i].pc = "caught"]
               /\ OnEndCall
               /\ UNCHANGED <<token, tokenRoom>>
          ELSE /\ getTokenRuns' = [getTokenRuns EXCEPT ![i].pc = "returned"]
               /\ token' = IF Mounted THEN r.token ELSE token
               /\ tokenRoom' = IF Mounted THEN getTokenRuns[i].roomName ELSE tokenRoom
               /\ UNCHANGED <<parentVars, uiTracksStopped>>
  /\ UNCHANGED <<events, authVars, roomVars, timeVars, historyVars,
                 uiLocalStreamRef, captures, settingsVars, recorderVars, notCall>>

\* wall-clock time passes
AdvanceTime ==
  /\ elapsed < MaxElapsed
  /\ elapsed' = elapsed + 1
  /\ UNCHANGED <<events, authVars, tokenVars, roomVars, callDuration, historyVars,
                 parentVars, recVars, notCall>>

\* durationInterval, which the effect sets and its cleanup clears:
\* setCallDuration(Math.floor((Date.now() - start) / 1000))
DurationInterval ==
  /\ Mounted
  /\ getTokenRuns # <<>>
  /\ callDuration' = elapsed
  /\ UNCHANGED <<events, authVars, tokenVars, roomVars, elapsed, historyVars,
                 parentVars, recVars, notCall>>

\* LiveKitRoom connect={true} joins the room with the token
RoomConnected ==
  /\ Mounted /\ Rendered
  /\ room = "idle"
  /\ room' = "connected"
  /\ Event
  /\ UNCHANGED <<authVars, tokenVars, remote, timeVars, historyVars,
                 parentVars, recVars, notCall>>

\* the partner joins: connectionStatus becomes "connected", so the cleanup
\* of the effect of CustomVideoUI runs, and the effect runs again and calls
\* captureLocalStream(), which awaits getUserMedia
RemoteJoined ==
  /\ Mounted
  /\ room = "connected"
  /\ ~remote
  /\ Len(captures) < MaxCaptures
  /\ remote' = TRUE
  /\ StopTracks
  /\ captures' = Append(captures, "awaiting")
  /\ Event
  /\ UNCHANGED <<authVars, tokenVars, room, timeVars, historyVars, parentVars,
                 uiLocalStreamRef, settingsVars, recorderVars, notCall>>

\* the partner leaves: connectionStatus becomes "connecting", so the cleanup
\* of the effect of CustomVideoUI runs; the effect runs again and does nothing
RemoteLeft ==
  /\ Mounted
  /\ remote
  /\ remote' = FALSE
  /\ StopTracks
  /\ Event
  /\ UNCHANGED <<authVars, tokenVars, room, timeVars, historyVars, parentVars,
                 uiLocalStreamRef, captures, settingsVars, recorderVars, notCall>>

HistoryEntry(duration, wasRecorded) ==
  [partnerId |-> partnerId, partnerUsername |-> PartnerName, duration |-> duration,
   timestamp |-> elapsed, connectionFee |-> ConnectionFee, wasRecorded |-> wasRecorded]

\* await addSessionHistory({...}) of handleEndCall
HandleEndCallHistory(history, duration, wasRecorded) ==
  Append(history, HistoryEntry(duration, wasRecorded))

\* onDisconnected of LiveKitRoom: handleDisconnect up to its await
HandleDisconnect ==
  /\ Mounted
  /\ room = "connected"
  /\ Len(sessionHistory) < MaxHistory
  /\ room' = "disconnected"
  /\ sessionHistory' = Append(sessionHistory, HistoryEntry(elapsed, FALSE))
  /\ awaitingHistory' = awaitingHistory + 1
  /\ Event
  /\ UNCHANGED <<authVars, tokenVars, remote, timeVars, historyRejected,
                 parentVars, recVars, notCall>>

\* addSessionHistory resolves: the handler awaiting it calls onEndCall()
HistorySaved ==
  /\ awaitingHistory > 0
  /\ awaitingHistory' = awaitingHistory - 1
  /\ OnEndCall
  /\ UNCHANGED <<events, authVars, tokenVars, roomVars, timeVars, sessionHistory,
                 historyRejected, uiLocalStreamRef, captures, settingsVars,
                 recorderVars, notCall>>

\* addSessionHistory rejects: the handler awaiting it ends with the rejection
HistoryFailed ==
  /\ awaitingHistory > 0
  /\ awaitingHistory' = awaitingHistory - 1
  /\ historyRejected' = historyRejected + 1
  /\ UNCHANGED <<events, authVars, tokenVars, roomVars, timeVars, sessionHistory,
                 parentVars, recVars, notCall>>

SeInit ==
  /\ user \in {Undefined, "u1"}
  /\ partnerId = PartnerId
  /\ token = NoToken
  /\ tokenRoom = NoRoom
  /\ getTokenRuns = <<>>
  /\ room = "idle"
  /\ remote = FALSE
  /\ elapsed = 0
  /\ callDuration = 0
  /\ sessionHistory = <<>>
  /\ awaitingHistory = 0
  /\ onEndCallCount = 0
  /\ historyRejected = 0
  /\ mounted = TRUE
  /\ events = 0

SeIdle ==
  /\ user = Undefined
  /\ partnerId = PartnerId
  /\ token = NoToken
  /\ tokenRoom = NoRoom
  /\ getTokenRuns = <<>>
  /\ room = "idle"
  /\ remote = FALSE
  /\ elapsed = 0
  /\ callDuration = 0
  /\ sessionHistory = <<>>
  /\ awaitingHistory = 0
  /\ onEndCallCount = 0
  /\ historyRejected = 0
  /\ mounted = TRUE
  /\ events = 0

(***************************************************************************)
(* Recording Pipeline: startRecording, stopRecording and the handlers of   *)
(* the MediaRecorder.  The handlers are closures of the render in which    *)
(* startRecording was called: each recorder keeps the recordedChunks,      *)
(* recordingTitle, recordingPrice, callDuration and partner of that        *)
(* render.                                                                 *)
(*                                                                         *)
(* JavaScript numbers and parseFloat.  A string given to parseFloat is a   *)
(* sequence of UTF-16 code units.  A number is NaN, an infinity, or the    *)
(* double  sign * (hi * 2^30 + lo) * 2^exp  in the form IEEE 754 gives it: *)
(* 2^52 <= hi * 2^30 + lo < 2^53 for a normal number, and exp = -1074 for  *)
(* zero and the numbers below the normal range.  Two numbers are the same  *)
(* double exactly when their records are equal.  The value of a decimal    *)
(* literal is computed exactly, on naturals of any size, and rounded once. *)
(***************************************************************************)
DefaultPrice == 999  \* useState(9.99), in hundredths

Limb == 1000         \* big naturals are sequences of base-1000 digits, lowest first
Chunk == 1024        \* the significand is divided out ten bits at a time
Half == 1073741824   \* 2^30: lo < 2^30
MinExp == -1074      \* the exponent of the smallest double, 2^-1074

MaxOf(S) == CHOOSE i \in S : \A j \in S : j <= i
MinOf(S) == CHOOSE i \in S : \A j \in S : i <= j

\* digit i of the big natural a, 0 above its length
At(a, i) == IF 1 <= i /\ i <= Len(a) THEN a[i] ELSE 0

\* the big natural without its leading zero digits
BigNorm(a) ==
  LET nz == {i \in 1..Len(a) : a[i] # 0}
  IN  IF nz = {} THEN <<>> ELSE SubSeq(a, 1, MaxOf(nz))

\* one round of carrying: every digit keeps its part below Limb and takes
\* the rest of the digit below it
Carry(v) ==
  SubSeq([i \in 1..(Len(v) + 1) |-> (At(v, i) % Limb) + (At(v, i - 1) \div Limb)],
         1, Len(v) + 1)

\* the big natural of a sequence of naturals below 2 * Limb, taken as
\* digits: a carry reaches digit i from the nearest digit below it that is
\* Limb or more, when every digit between them is Limb - 1
Ripple(w) ==
  LET cin(i) == \E j \in 1..(i - 1) :
                  /\ w[j] >= Limb
                  /\ \A k \in (j + 1)..(i - 1) : w[k] = Limb - 1
  IN  BigNorm([i \in 1..(Len(w) + 1) |->
                 (At(w, i) + (IF cin(i) THEN 1 ELSE 0)) % Limb])

\* the big natural of a sequence of naturals below 2^31, taken as digits
BigOf(v) == IF v = <<>> THEN <<>> ELSE Ripple(Carry(Carry(Carry(v))))

\* a * k for a big natural a and a natural k below 2^21
BigMulSmall(a, k) == BigOf([i \in 1..Len(a) |-> a[i] * k])

\* a[lo] * b[i - lo + 1] + ... + a[hi] * b[i - hi + 1]
RECURSIVE Conv(_, _, _, _, _)
Conv(a, b, i, lo, hi) ==
  IF lo > hi THEN 0
  ELSE IF lo = hi THEN a[lo] * b[i - lo + 1]
  ELSE LET mid == (lo + hi) \div 2
       IN  Conv(a, b, i, lo, mid) + Conv(a, b, i, mid + 1, hi)

\* a * b
BigMul(a, b) ==
  IF a = <<>> \/ b = <<>> THEN <<>>
  ELSE BigOf([i \in 1..(Len(a) + Len(b) - 1) |->
                Conv(a, b, i,
                     IF i > Len(b) THEN i - Len(b) + 1 ELSE 1,
                     IF i < Len(a) THEN i ELSE Len(a))])

\* a * Limb^n
BigShift(a, n) == IF a = <<>> THEN <<>> ELSE [i \in 1..n |-> 0] \o a

RECURSIVE Pow10(_)
Pow10(n) == IF n = 0 THEN 1 ELSE 10 * Pow10(n - 1)

\* a * 10^n
BigMul10(a, n) == BigShift(BigMulSmall(a, Pow10(n % 3)), n \div 3)

\* 2^n, by squaring
RECURSIVE BigPow2(_)
BigPow2(n) ==
  IF n < 20 THEN BigOf(<<2^n>>)
  ELSE LET h == BigPow2(n \div 2)
           sq == BigMul(h, h)
       IN  IF n % 2 = 1 THEN BigMulSmall(sq, 2) ELSE sq

\* a * 2^n
BigShl(a, n) == IF n = 0 THEN a ELSE BigMul(a, BigPow2(n))

\* -1, 0 or 1 as a < b, a = b or a > b: the highest digit that differs decides
BigCmp(a, b) ==
  IF Len(a) < Len(b) THEN -1
  ELSE IF Len(a) > Len(b) THEN 1
  ELSE LET df == {i \in 1..Len(a) : a[i] # b[i]}
       IN  IF df = {} THEN 0
           ELSE IF a[MaxOf(df)] < b[MaxOf(df)] THEN -1 ELSE 1

\* a - b for a >= b: digit i lends to the nearest digit below it that is
\* smaller in a than in b, when the digits between them are equal
BigSub(a, b) ==
  LET out(i) == \E j \in 1..(i - 1) :
                   /\ a[j] < At(b, j)
                   /\ \A k \in (j + 1)..(i - 1) : a[k] = At(b, k)
  IN  BigNorm([i \in 1..Len(a) |->
                 (a[i] - At(b, i) - (IF out(i) THEN 1 ELSE 0) + Limb) % Limb])

\* how many decimal digits the natural number n > 0 has
RECURSIVE NumDigits(_)
NumDigits(n) == IF n < 10 THEN 1 ELSE 1 + NumDigits(n \div 10)

\* how many decimal digits the big natural a > 0 has
BigNumDigits(a) == 3 * (Len(a) - 1) + NumDigits(a[Len(a)])

NaN == [nan |-> TRUE, inf |-> FALSE, sign |-> 1, hi |-> 0, lo |-> 0, exp |-> 0]
Infinity(sign) == [nan |-> FALSE, inf |-> TRUE, sign |-> sign, hi |-> 0, lo |-> 0, exp |-> 0]
Zero(sign) == [nan |-> FALSE, inf |-> FALSE, sign |-> sign, hi |-> 0, lo |-> 0, exp |-> MinExp]

\* the quotient of r by y for r < Chunk * y and y of three digits or more:
\* the leading digits of the two bound it within a few candidates
QuoDigit(r, y) ==
  LET n == Len(y)
      yt == y[n] * Limb + y[n - 1]
      rt == ((At(r, n + 2) * Limb + At(r, n + 1)) * Limb + At(r, n)) * Limb
              + At(r, n - 1)
      fits(c) == BigCmp(BigMulSmall(y, c), r) <= 0
  IN  MaxOf({c \in (rt \div (yt + 1))..(rt \div yt) : fits(c)})

\* the quotient of r by y * Chunk^(k+1), as digits of base Chunk, lowest
\* first, before the digits q already found, and the remainder: for
\* r < y * Chunk^(k+1)
RECURSIVE Divide(_, _, _, _)
Divide(r, y, k, q) ==
  IF k < 0 THEN [q |-> q, r |-> r]
  ELSE LET yk == BigShl(y, 10 * k)
           d == QuoDigit(r, yk)
       IN  IF d = 0 THEN Divide(r, y, k - 1, <<0>> \o q)
           ELSE Divide(BigSub(r, BigMulSmall(yk, d)), y, k - 1, <<d>> \o q)

\* the double sign * q * 2^exp for the natural q nearest to x / y, ties to
\* the even one, where d is the quotient of x by y and its remainder
Nearest(sign, d, y, exp) ==
  LET qlo == (d.q[3] * Chunk + d.q[2]) * Chunk + d.q[1]
      qhi == (d.q[6] * Chunk + d.q[5]) * Chunk + d.q[4]
      half == BigCmp(BigMulSmall(d.r, 2), y)
      up == half > 0 \/ (half = 0 /\ qlo % 2 = 1)
      low == IF up THEN qlo + 1 ELSE qlo
      hi == qhi + low \div Half
      carried == hi = 8388608   \* rounded up to 2^53
  IN  IF hi >= 4194304 /\ (IF carried THEN exp + 1 ELSE exp) >= 972
      THEN Infinity(sign)
      ELSE [nan |-> FALSE, inf |-> FALSE, sign |-> sign,
            hi |-> IF carried THEN 4194304 ELSE hi,
            lo |-> low % Half,
            exp |-> IF carried THEN exp + 1 ELSE exp]

\* the double nearest to sign * (x / y) * 2^exp, where x / y >= 2^52 unless
\* exp = MinExp: the exponent is raised until the quotient is below 2^53
RECURSIVE Round(_, _, _, _)
Round(sign, x, y, exp) ==
  IF BigCmp(x, BigShl(y, 53)) >= 0
  THEN Round(sign, x, BigMulSmall(y, 2), exp + 1)
  ELSE Nearest(sign, Divide(x, y, 5, <<>>), y, exp)

\* the double nearest to sign * m * 10^e for a big natural m, ties to the
\* even significand: Infinity from 2^1024 on, zero up to 2^-1075
ToDouble(sign, m, e) ==
  IF m = <<>> THEN Zero(sign)
  ELSE LET order == BigNumDigits(m) + e   \* 10^(order-1) <= m * 10^e < 10^order
           \* exp0 is at most the exponent of the result, and near it
           log2 == IF order >= 1 THEN ((order - 1) * 3321) \div 1000
                                  ELSE ((order - 1) * 3322) \div 1000
           exp0 == IF log2 - 52 < MinExp THEN MinExp ELSE log2 - 52
           \* m * 10^e = (a / b) * 2^exp0, with b of three digits or more
           a == BigShift(IF e >= 0 THEN BigMul10(m, e) ELSE m, 2)
           b == BigShift(IF e >= 0 THEN <<1>> ELSE BigMul10(<<1>>, 0 - e), 2)
       IN  IF order > 309 THEN Infinity(sign)
           ELSE IF order < -323 THEN Zero(sign)
           ELSE Round(sign,
                      IF exp0 < 0 THEN BigShl(a, 0 - exp0) ELSE a,
                      IF exp0 > 0 THEN BigShl(b, exp0) ELSE b,
                      exp0)

\* the number of an amount written in hundredths, such as 9.99
Num(hundredths) == ToDouble(1, BigOf(<<hundredths>>), -2)

Digits == 48..57
DigitValue(c) == c - 48

\* WhiteSpace and LineTerminator of ECMAScript: TAB, LF, VT, FF, CR, SP, NBSP,
\* the other space separators of Unicode, LS, PS and ZWNBSP
WhiteSpace ==
  {9, 10, 11, 12, 13, 32, 160, 5760, 8232, 8233, 8239, 8287, 12288, 65279}
    \cup (8192..8202)

\* the length of the longest run of characters of set in str from position i on
Run(str, i, set) ==
  LET stops == {j \in i..Len(str) : str[j] \notin set}
  IN  IF i > Len(str) THEN 0
      ELSE IF stops = {} THEN Len(str) - i + 1
      ELSE MinOf(stops) - i

\* the length of the longest run of digits in str from position i on
DigitRun(str, i) == Run(str, i, Digits)

\* the big natural written by the digits str: three of them make a digit of it
DigitsValue(str) ==
  LET n == Len(str)
      at(j) == IF j >= 1 THEN DigitValue(str[j]) ELSE 0
  IN  BigNorm([i \in 1..((n + 2) \div 3) |->
                 (at(n - 3 * i + 1) * 10 + at(n - 3 * i + 2)) * 10 + at(n - 3 * i + 3)])

\* the natural written by the n digits of str from position i on, or 100000
\* when it is larger: no double has an exponent of that size
ExponentValue(str, i, n) ==
  LET z == Run(str, i, {48})
      v == DigitsValue(SubSeq(str, i + z, i + n - 1))
  IN  IF n - z > 5 THEN 100000 ELSE At(v, 2) * Limb + At(v, 1)

\* whether word stands in str at position i
StartsWith(str, i, word) ==
  /\ i + Len(word) - 1 <= Len(str)
  /\ \A k \in 1..Len(word) : str[i + k - 1] = word[k]

\* parseFloat(str): leading white space is skipped; then the longest prefix
\* that is a decimal literal is the number: an optional sign, then Infinity,
\* or digits with an optional point and fraction (a digit on at least one
\* side of the point) and an optional exponent, which counts only with a
\* digit in it.  Without such a prefix the result is NaN.
ParseFloat(str) ==
  LET s == 1 + Run(str, 1, WhiteSpace)
      signed == s <= Len(str) /\ str[s] \in {43, 45}
      sign == IF signed /\ str[s] = 45 THEN -1 ELSE 1
      i == IF signed THEN s + 1 ELSE s
      n == DigitRun(str, i)
      point == i + n <= Len(str) /\ str[i + n] = 46
      f == IF point THEN DigitRun(str, i + n + 1) ELSE 0
      p == IF point THEN i + n + 1 + f ELSE i + n
      marked == p <= Len(str) /\ str[p] \in {101, 69}
      esigned == marked /\ p + 1 <= Len(str) /\ str[p + 1] \in {43, 45}
      q == IF esigned THEN p + 2 ELSE p + 1
      k == IF marked THEN DigitRun(str, q) ELSE 0
      ev == ExponentValue(str, q, k)
      exponent == IF esigned /\ str[p + 1] = 45 THEN 0 - ev ELSE ev
      digits == SubSeq(str, i, i + n - 1) \o SubSeq(str, i + n + 1, i + n + f)
  IN  IF StartsWith(str, i, <<73, 110, 102, 105, 110, 105, 116, 121>>)
      THEN Infinity(sign)
      ELSE IF n + f = 0 THEN NaN
      ELSE ToDouble(sign, DigitsValue(digits), exponent - f)

\* what the user may type into the title and the price input: any text; and
\* the value of a number input, which is empty unless it is a number
TitleInputs == {"", "Duet"}
PriceInputs ==
  { <<>>,
    <<48, 46, 57, 57>>,    \* "0.99"
    <<49, 101, 45, 51>> }  \* "1e-3"

\* parseFloat of every value the price input may deliver
PriceOf == [value \in PriceInputs |-> ParseFloat(value)]

Finalized == {"saved", "failed"}

RecInit ==
  /\ localStreamRef = FALSE
  /\ uiLocalStreamRef = FALSE
  /\ uiTracksStopped = FALSE
  /\ captures = <<>>
  /\ startRecordingPc = "idle"
  /\ showRecordingSettings = FALSE
  /\ recordingTitle = ""
  /\ recordingPrice = Num(DefaultPrice)
  /\ isRecording = FALSE
  /\ mediaRecorder = 0
  /\ recordedChunks = <<>>
  /\ recorders = <<>>
  /\ uploads = <<>>
  /\ recordings = <<>>

\* where the latest call of captureLocalStream() is
captureLocalStreamPc ==
  IF captures = <<>> THEN "idle" ELSE captures[Len(captures)]

\* the getUserMedia of call i settles, whether or not the component is still
\* mounted: captureLocalStream stores the stream in the ref of CustomVideoUI,
\* or its catch logs the error
CaptureLocalStream(i) ==
  /\ captures[i] = "awaiting"
  /\ \E granted \in BOOLEAN :
       /\ captures' = [captures EXCEPT ![i] = IF granted THEN "assigned" ELSE "caught"]
       /\ uiLocalStreamRef' = (uiLocalStreamRef \/ granted)
       /\ uiTracksStopped' = (uiTracksStopped /\ ~granted)
  /\ UNCHANGED <<settingsVars, recorderVars, seVars, notCall>>

\* the record button, shown while not recording: setShowRecordingSettings(true)
OpenRecordingSettings ==
  /\ Mounted /\ Rendered
  /\ ~isRecording
  /\ ~showRecordingSettings
  /\ showRecordingSettings' = TRUE
  /\ Event
  /\ UNCHANGED <<recordingTitle, recordingPrice, captureVars, recorderVars,
                 coVars, notCall>>

\* Cancel in the settings modal: setShowRecordingSettings(false)
CancelRecordingSettings ==
  /\ Mounted /\ Rendered
  /\ showRecordingSettings
  /\ showRecordingSettings' = FALSE
  /\ Event
  /\ UNCHANGED <<recordingTitle, recordingPrice, captureVars, recorderVars,
                 coVars, notCall>>

\* the title input of the settings modal: setRecordingTitle(e.target.value)
SetRecordingTitle(value) ==
  /\ Mounted /\ Rendered
  /\ showRecordingSettings
  /\ recordingTitle' = value
  /\ Event
  /\ UNCHANGED <<showRecordingSettings, recordingPrice, captureVars, recorderVars,
                 coVars, notCall>>

\* the price input of the settings modal:
\* setRecordingPrice(parseFloat(e.target.value))
SetRecordingPrice(value) ==
  /\ Mounted /\ Rendered
  /\ showRecordingSettings
  /\ recordingPrice' = PriceOf[value]
  /\ Event
  /\ UNCHANGED <<showRecordingSettings, recordingTitle, captureVars, recorderVars,
                 coVars, notCall>>

\* Start Recording in the settings modal: startRecording().  It returns at
\* once without a stream; new MediaRecorder may throw, which is caught.
StartRecording ==
  /\ Mounted /\ Rendered
  /\ showRecordingSettings
  /\ Len(recorders) < MaxRecorders
  /\ IF ~localStreamRef
     THEN /\ startRecordingPc' = "returned"
          /\ UNCHANGED <<recorders, mediaRecorder, isRecording, recordedChunks>>
     ELSE \E constructed \in BOOLEAN :
            IF constructed
            THEN /\ recorders' = Append(recorders,
                      [state |-> "recording", pc |-> "capturing",
                       recordedChunks |-> recordedChunks,
                       recordingTitle |-> recordingTitle,
                       recordingPrice |-> recordingPrice,
                       callDuration |-> callDuration,
                       partnerId |-> partnerId,
                       partnerName |-> PartnerName])
                 /\ mediaRecorder' = Len(recorders) + 1
                 /\ isRecording' = TRUE
                 /\ recordedChunks' = <<>>
                 /\ startRecordingPc' = "started"
            ELSE /\ startRecordingPc' = "caught"
                 /\ UNCHANGED <<recorders, mediaRecorder, isRecording, recordedChunks>>
  /\ Event
  /\ UNCHANGED <<localStreamRef, uploads, recordings, captureVars, settingsVars,
                 coVars, notCall>>

\* stopRecording(): whether it stops the recorder of the mediaRecorder state
Stops == mediaRecorder # 0 /\ recorders[mediaRecorder].state = "recording"

\* stopRecording(): mediaRecorder.stop() makes the recorder inactive and
\* queues the task that fires its dataavailable and stop events
StopRecording ==
  IF Stops
  THEN /\ recorders' = [recorders EXCEPT ![mediaRecorder].state = "inactive",
                                         ![mediaRecorder].pc = "stopping"]
       /\ isRecording' = FALSE
       /\ mediaRecorder' = 0
       /\ showRecordingSettings' = FALSE
  ELSE UNCHANGED <<recorders, isRecording, mediaRecorder, showRecordingSettings>>

\* the stop button, shown while recording
StopRecordingClicked ==
  /\ Mounted /\ Rendered
  /\ isRecording
  /\ StopRecording
  /\ UNCHANGED <<localStreamRef, startRecordingPc, recordedChunks, uploads,
                 recordings, recordingTitle, recordingPrice, captureVars,
                 seVars, notCall>>

\* recordingTitle || `Session with ${partnerName}`
TitleOf(title, partnerName) ==
  IF title = "" THEN "Session with " \o partnerName ELSE title

\* the task queued by stop(): ondataavailable with what was captured
\* (setRecordedChunks, which does nothing once the component is removed),
\* then onstop up to its await of uploadRecording
RecorderStopped(r) ==
  /\ recorders[r].pc = "stopping"
  /\ \E size \in {0, 1} :
       recordedChunks' = IF size > 0 /\ Mounted
                         THEN Append(recordedChunks, [recorder |-> r, size |-> size])
                         ELSE recordedChunks
  /\ uploads' = Append(uploads,
       [blob |-> recorders[r].recordedChunks,
        title |-> TitleOf(recorders[r].recordingTitle, recorders[r].partnerName),
        partnerId |-> recorders[r].partnerId,
        partnerName |-> recorders[r].partnerName,
        price |-> recorders[r].recordingPrice, isPublic |-> FALSE])
  /\ recorders' = [recorders EXCEPT ![r].pc = "uploading"]
  /\ UNCHANGED <<localStreamRef, startRecordingPc, isRecording, mediaRecorder,
                 recordings, captureVars, settingsVars, seVars, notCall>>

\* uploadRecording resolves: onstop goes on to its await of addRecording
UploadResolved(r) ==
  /\ recorders[r].pc = "uploading"
  /\ recordings' = Append(recordings,
       [partnerId |-> recorders[r].partnerId,
        partnerUsername |-> recorders[r].partnerName,
        title |-> TitleOf(recorders[r].recordingTitle, recorders[r].partnerName),
        duration |-> recorders[r].callDuration, views |-> 0, earnings |-> 0,
        price |-> recorders[r].recordingPrice, isPublic |-> FALSE])
  /\ recorders' = [recorders EXCEPT ![r].pc = "registering"]
  /\ UNCHANGED <<localStreamRef, startRecordingPc, isRecording, mediaRecorder,
                 recordedChunks, uploads, captureVars, settingsVars, seVars, notCall>>

\* uploadRecording rejects: the catch of onstop logs the error
UploadRejected(r) ==
  /\ recorders[r].pc = "uploading"
  /\ recorders' = [recorders EXCEPT ![r].pc = "failed"]
  /\ UNCHANGED <<localStreamRef, startRecordingPc, isRecording, mediaRecorder,
                 recordedChunks, uploads, recordings, captureVars, settingsVars,
                 seVars, notCall>>

\* addRecording settles: onstop logs the success, or its catch the error
AddRecordingSettled(r) ==
  /\ recorders[r].pc = "registering"
  /\ \E outcome \in Finalized : recorders' = [recorders EXCEPT ![r].pc = outcome]
  /\ UNCHANGED <<localStreamRef, startRecordingPc, isRecording, mediaRecorder,
                 recordedChunks, uploads, recordings, captureVars, settingsVars,
                 seVars, notCall>>

\* the End Call button: handleEndCall up to its await of addSessionHistory.
\* await stopRecording() resumes in a microtask, before any other task.
HandleEndCall ==
  /\ Mounted /\ Rendered
  /\ Len(sessionHistory) < MaxHistory
  /\ IF isRecording THEN StopRecording
     ELSE UNCHANGED <<recorders, isRecording, mediaRecorder, showRecordingSettings>>
  /\ sessionHistory' = HandleEndCallHistory(sessionHistory, callDuration, isRecording)
  /\ awaitingHistory' = awaitingHistory + 1
  /\ Event
  /\ UNCHANGED <<authVars, tokenVars, roomVars, timeVars, historyRejected,
                 parentVars, localStreamRef, startRecordingPc, recordedChunks,
                 uploads, recordings, recordingTitle, recordingPrice,
                 captureVars, notCall>>

(***************************************************************************)
(* Specifications.                                                         *)
(***************************************************************************)
Init == SigInit /\ RnIdle /\ TkIdle /\ SeIdle /\ RecInit

\* the signaling operations, invoked by either participant in any order
Next ==
  \/ \E a \in Users, b \in Users : createCall(a, b)
  \/ \E c \in CallIds : acceptCall(c)
  \/ \E c \in CallIds : endCall(c)
  \/ Tick

Spec == Init /\ [][Next]_vars

\* the signaling operations together with live subscriptions
NextListen ==
  \/ \E a \in Users, b \in Users : createCall(a, b)
  \/ \E c \in CallIds : acceptCall(c)
  \/ \E c \in CallIds : endCall(c)
  \/ \E u \in Users : listenIncoming(u)
  \/ \E s \in DOMAIN subs : StoreSnapshot(s)
  \/ \E s \in DOMAIN subs, id \in CallIds : StoreRedeliver(s, id)
  \/ \E s \in DOMAIN subs : SnapshotListener(s)
  \/ \E s \in DOMAIN subs : DropSnapshot(s)
  \/ \E s \in DOMAIN subs : Unsubscribe(s)

SpecListen == Init /\ [][NextListen]_vars

\* the Room Namer on every pair of identities
InitRoom == SigInit /\ RnInit /\ TkIdle /\ SeIdle /\ RecInit

NextRoom ==
  \/ RnCreateCall("createCall a->b", rnPair[1], rnPair[2])
  \/ RnCreateCall("createCall b->a", rnPair[2], rnPair[1])
  \/ RnGetToken("getToken a", rnPair[1], rnPair[2])
  \/ RnGetToken("getToken b", rnPair[2], rnPair[1])

SpecRoom == InitRoom /\ [][NextRoom]_vars

\* the token endpoint on every request and server configuration
InitToken == SigInit /\ RnIdle /\ TkInit /\ SeIdle /\ RecInit

NextToken == POST

SpecToken == InitToken /\ [][NextToken]_vars


\* one call of the session component, from the state after its first render.
\* The component never assigns its localStreamRef, so startRecording always
\* returns at once and no recorder ever exists: stopRecording's branch for
\* an active recorder, the stop button and the handlers of the recorder
\* (StopRecordingClicked, RecorderStopped, UploadResolved, UploadRejected,
\* AddRecordingSettled) run in no behaviour and are no steps of it.
InitSession == SigInit /\ RnIdle /\ TkIdle /\ SeInit /\ RecInit

NextSession ==
  \/ GetTokenStart
  \/ \E uid \in {Undefined, "u1"}, partner \in Partners : GetTokenRestart(uid, partner)
  \/ \E i \in DOMAIN getTokenRuns : GetTokenFetched(i)
  \/ \E i \in DOMAIN getTokenRuns : GetTokenRead(i)
  \/ AdvanceTime
  \/ DurationInterval
  \/ RoomConnected
  \/ RemoteJoined
  \/ RemoteLeft
  \/ \E i \in DOMAIN captures : CaptureLocalStream(i)
  \/ OpenRecordingSettings
  \/ CancelRecordingSettings
  \/ \E value \in TitleInputs : SetRecordingTitle(value)
  \/ \E value \in PriceInputs : SetRecordingPrice(value)
  \/ StartRecording
  \/ HandleEndCall
  \/ HandleDisconnect
  \/ HistorySaved
  \/ HistoryFailed

SpecSession == InitSession /\ [][NextSession]_vars

(***************************************************************************)
(* Claims about the Call Signaling Service (Spec).                         *)
(***************************************************************************)
Forward == {<<"ringing", "accepted">>, <<"ringing", "ended">>, <<"accepted", "ended">>}

\* C1: the status of every invite only moves forward: a step that changes the
\* status of an invite takes it ringing->accepted, ringing->ended or
\* accepted->ended, so an ended invite stays ended and no invite returns to
\* ringing.
C1_StatusOnlyForward ==
  [][\A c \in DOMAIN calls :
       calls'[c].status # calls[c].status
         => <<calls[c].status, calls'[c].status>> \in Forward]_vars

\* C2: acceptCall on an invite that does not exist or is already ended reports
\* InvalidTransition (its promise does not reject) and leaves the stored invite
\* as it was before the call.
C2_AcceptInvalidReported ==
  (lastOp.op = "acceptCall" /\ lastOp.before.status \in {"missing", "ended"})
    => /\ lastOp.outcome = "InvalidTransition"
       /\ Lookup(lastOp.callId) = lastOp.before

\* C3: endCall on an already ended invite is not an error and leaves the
\* invite record exactly as the first endCall left it.
C3_EndCallIdempotent ==
  (lastOp.op = "endCall" /\ lastOp.before.status = "ended")
    => /\ lastOp.outcome = "resolved"
       /\ Lookup(lastOp.callId) = lastOp.before

(***************************************************************************)
(* Claims about listenIncoming (SpecListen).                               *)
(***************************************************************************)
\* C7: once the unsubscribe handle of a subscription has been called and has
\* returned, the subscription's callback is not invoked again.
C7_NoCallbackAfterUnsubscribe ==
  \A i \in DOMAIN delivered : ~delivered[i].afterUnsubscribe

\* C8: the callback of a subscription is invoked only with ringing invites
\* whose callee is the subscription's user, and at most once per invite.
C8_OncePerRingingInvite ==
  /\ \A i \in DOMAIN delivered :
       /\ delivered[i].invite.calleeId = subs[delivered[i].sub].userId
       /\ delivered[i].invite.status = "ringing"
  /\ \A i \in DOMAIN delivered, j \in DOMAIN delivered :
       (i # j /\ delivered[i].sub = delivered[j].sub)
         => delivered[i].invite.id # delivered[j].invite.id

(***************************************************************************)
(* Claims about call termination (SpecSession).                            *)
(***************************************************************************)
\* how many times a termination handler has called onEndCall: every other
\* call of onEndCall is that of the catch of a getToken()
TerminationsNotified ==
  onEndCallCount - Cardinality({i \in DOMAIN getTokenRuns : getTokenRuns[i].pc = "caught"})

\* C4: whatever termination triggers occur in one call (End Call, transport
\* disconnect, either of them repeated), addSessionHistory is called exactly
\* once: never twice, and once by the time a termination handler has told the
\* parent that the call ended.
C4_ExactlyOneHistoryEntry ==
  /\ Len(sessionHistory) <= 1
  /\ TerminationsNotified > 0 => Len(sessionHistory) = 1

\* the fetch of run i of getToken failed: it rejected, or the response was
\* not OK
CredentialFailed(i) ==
  \/ getTokenRuns[i].fetched.kind = "rejected"
  \/ getTokenRuns[i].fetched.kind = "response" /\ ~Ok(getTokenRuns[i].fetched.response)

\* C6: once an acquisition of the join credential has failed, no token is
\* stored and the room is not joined, in that state and ever after; that
\* getToken is reading the body of the response or has reached its catch,
\* and once it has reached its catch onEndCall has been called.
C6_CredentialFailureAborts ==
  \A i \in DOMAIN getTokenRuns :
    CredentialFailed(i)
      => /\ token = NoToken
         /\ ~Rendered
         /\ room = "idle"
         /\ getTokenRuns[i].pc \in {"reading", "caught"}
         /\ getTokenRuns[i].pc = "caught" => onEndCallCount >= 1

(***************************************************************************)
(* Claims about the Room Namer (SpecRoom).                                 *)
(***************************************************************************)
\* C9: for every pair of identities a, b the roomId of createCall from a to
\* b, the roomId of createCall from b to a, and the roomName for which the
\* session component of a, and that of b, requests its credential are all
\* the same.
C9_SameRoomEitherWay ==
  \A p \in Paths, q \in Paths :
    (rnRooms[p] # NoRoom /\ rnRooms[q] # NoRoom) => rnRooms[p] = rnRooms[q]

\* C9: all four rooms computed for two identities of which the second sorts
\* first
C9_Witness ==
  /\ \A p \in Paths : rnRooms[p] # NoRoom
  /\ StrLess(rnPair[2], rnPair[1])

(***************************************************************************)
(* Claims about the token endpoint (SpecToken).                            *)
(***************************************************************************)
HasToken(response) == response.token # NoToken
HasError(response) == response.error # Undefined

\* a required field is absent, null or empty (a body that is no object has
\* no fields)
MissingRequired(body) == Falsy(body.roomName) \/ Falsy(body.participantIdentity)

MissingCredential(env) == Falsy(env.apiKey) \/ Falsy(env.apiSecret)

\* C10 as stated: the response has a token or an error, never both; a request
\* missing a required field gets 400 with an error, whatever the server
\* credentials; a request with the required fields gets 500 with an error
\* when a server credential is missing; a token is returned only to a
\* request with the required fields when both credentials are set.
C10_TokenOrError ==
  tkResponse # NoResponse
    => /\ HasToken(tkResponse) # HasError(tkResponse)
       /\ MissingRequired(tkRequest)
            => (tkResponse.status = HttpBadRequest /\ HasError(tkResponse))
       /\ (~MissingRequired(tkRequest) /\ MissingCredential(tkEnv))
            => (tkResponse.status = HttpServerError /\ HasError(tkResponse))
       /\ HasToken(tkResponse)
            => (~MissingRequired(tkRequest) /\ ~MissingCredential(tkEnv))

\* C10, amended: as C10, except that 400 is the answer to a body that parses
\* to a JSON object (or any value other than null) and misses a required
\* field; a body that is not JSON, or is the JSON value null, gets 500 with
\* an error and no token.
C10_TokenOrErrorParsed ==
  tkResponse # NoResponse
    => /\ HasToken(tkResponse) # HasError(tkResponse)
       /\ (tkRequest.kind = "object" /\ MissingRequired(tkRequest))
            => (tkResponse.status = HttpBadRequest /\ HasError(tkResponse))
       /\ tkRequest.kind # "object"
            => (tkResponse.status = HttpServerError /\ HasError(tkResponse))
       /\ (~MissingRequired(tkRequest) /\ MissingCredential(tkEnv))
            => (tkResponse.status = HttpServerError /\ HasError(tkResponse))
       /\ HasToken(tkResponse)
            => (~MissingRequired(tkRequest) /\ ~MissingCredential(tkEnv))

\* C10: a request without roomName answered 400 by a server without its API key
C10_Witness ==
  /\ tkRequest.kind = "object"
  /\ tkRequest.roomName = Undefined
  /\ tkEnv.apiKey = Undefined
  /\ tkResponse.status = HttpBadRequest
  /\ HasError(tkResponse)

(***************************************************************************)
(* Claims about the Recording Pipeline (SpecSession).                      *)
(***************************************************************************)
\* C12: a call of startRecording reaches 'recording' exactly when a local
\* media stream is available: once the local stream of the connected call
\* has been captured the call starts a recorder and isRecording becomes
\* true; without a stream it returns and leaves isRecording, the recorder
\* and the chunk buffer as they were.
C12_StartIffStreamAvailable ==
  [][startRecordingPc' # startRecordingPc
       => IF uiLocalStreamRef /\ ~uiTracksStopped
          THEN startRecordingPc' = "started" /\ isRecording'
          ELSE /\ startRecordingPc' = "returned"
               /\ UNCHANGED <<isRecording, mediaRecorder, recorders, recordedChunks>>]_vars

(***************************************************************************)
(* Claims about the call-ended notification (SpecSession).                 *)
(***************************************************************************)
\* C15: every termination of a call (addSessionHistory called by End Call or
\* by the disconnect of the transport) is followed by the call-ended
\* notification: a termination handler that is no longer awaiting its
\* history write has called onEndCall, so no handler ends without it.
C15_TerminationNotifies ==
  TerminationsNotified = Len(sessionHistory) - awaitingHistory

(***************************************************************************)
(* Claims about the stored duration (SpecSession).                         *)
(***************************************************************************)
\* C16: on every termination path the duration of the history entry is the
\* number of whole seconds between the start of the call and its end, as
\* read from the clock when the entry is written (its timestamp), and not
\* the value the duration interval last stored in callDuration.
C16_DurationIsWallClock ==
  \A i \in DOMAIN sessionHistory :
    sessionHistory[i].duration = sessionHistory[i].timestamp

(***************************************************************************)
(* Claims about a throwing callback (SpecListen).                          *)
(***************************************************************************)
\* C20: whenever the listener of a live subscription has run on a snapshot,
\* the callback has been invoked with every invite that the snapshot
\* reports as added, also with those that come after an invite on which
\* the callback threw; this holds for every snapshot, so also for those
\* that follow one during which the callback threw.
C20_ThrowDoesNotLoseInvites ==
  [][\A s \in DOMAIN subs :
       (/\ subs[s].active
        /\ subs[s].inflight # <<>>
        /\ subs'[s].inflight = Tail(subs[s].inflight))
         => LET batch == Head(subs[s].inflight)
                new == SubSeq(delivered', Len(delivered) + 1, Len(delivered'))
            IN  \A i \in DOMAIN batch :
                  batch[i].type = "added"
                    => \E j \in DOMAIN new :
                         new[j].sub = s /\ new[j].invite.id = batch[i].id]_vars

(***************************************************************************)
(* Claims about the injectivity of the Room Namer (SpecRoom).              *)
(***************************************************************************)
\* C22: the room computed for the two identities of a call is the room of
\* no other unordered pair of identities: whenever createCall or getToken
\* computes, for any two identities, the room of this call, those two are
\* the identities of this call.
C22_RoomIdInjective ==
  \A p \in Paths, q \in Identities \X Identities :
    (/\ rnRooms[p] # NoRoom
     /\ \/ CreateCallRoomId(q[1], q[2]) = rnRooms[p]
        \/ GetTokenRoomName(q[1], q[2]) = rnRooms[p])
      => {q[1], q[2]} = {rnPair[1], rnPair[2]}

====
